---------------------------- MODULE Spec2Model ----------------------------
(* Model of bender.py (VGBendingSolver): the minimum bending diameter of a *)
(* layered superconducting tape.                                           *)
(*                                                                         *)
(* Units.  The source works in floats: thickness and positions in          *)
(* micrometres, diameters in millimetres, moduli and stresses in pascal.   *)
(* The model keeps every quantity an exact rational:                       *)
(*   thickness, positions   integer micrometres                            *)
(*   diameter               integer millimetres (range(300, 0, -1))        *)
(*   youngs1..3             integer GPa                                    *)
(*   sigma1, sigma2         integer MPa                                    *)
(*   critical_tensil_strain integer microstrain (1e-6)                     *)
(*   strain                 a fraction <<num, den>>, den > 0               *)
(*   stress                 MPa, scaled by den * Kall (an integer)         *)
(* so that sigma / youngs = sigma_MPa / (1000 * youngs_GPa).               *)
EXTENDS Integers, Sequences, FiniteSets, TLC

VARIABLES modell, min_bending_diameter_d, min_bending_diameter_u,
          pc, tasks, stdout, call

vars == <<modell, min_bending_diameter_d, min_bending_diameter_u,
          pc, tasks, stdout, call>>

\* Optional[float]: None is the empty sequence, a value v is <<v>>
None == <<>>
Some(v) == <<v>>

\* what a call does: it returns a value v (value = <<v>>), or it raises
Return(v) == [raised |-> FALSE, value |-> <<v>>]
Raise == [raised |-> TRUE, value |-> <<>>]
Value(outcome) == outcome.value[1]

\* ------------------------------------------------------------------ bounds
MaxThickness == 3       \* total thickness (micrometres) of a loaded stack
MaxDiameter == 300      \* range(300, 0, -1)

\* ------------------------------------------------------ VGBendingMaterialData
Material(n, sc, t, e1, e2, e3, s1, s2, crit) ==
    [name |-> n, is_superconductor |-> sc, thickness |-> t,
     youngs1 |-> e1, youngs2 |-> e2, youngs3 |-> e3,
     sigma1 |-> s1, sigma2 |-> s2, critical_tensil_strain |-> crit]

\* the layer records a property file may hold: a 2 um stabiliser that yields
\* at 0.1 % strain, a 1 um superconducting film that carries no load
\* (sigma1 = sigma2 = 0, youngs3 = 0) and a 1 um superconductor that does
Materials ==
    { Material("Cu",    FALSE, 2, 1, 1, 2, 1, 2, 0),
      Material("YBCO",  TRUE,  1, 2, 2, 0, 0, 0, 1000),
      Material("GdBCO", TRUE,  1, 1, 2, 2, 2, 4, 25) }

\* layer records a property file may hold as well (parse_material_data
\* checks no number): a perfectly plastic layer (youngs2 = 0), a layer with
\* no stiffness (youngs1 = 0) and a layer whose yield stresses are negative
DegenerateMaterials ==
    { Material("Ag",     FALSE, 1, 1, 0, 2, 1, 1, 0),
      Material("Buffer", FALSE, 1, 0, 1, 2, 0, 0, 0),
      Material("Kapton", FALSE, 1, 1, 1, 2, -1, -1, 0) }

RECURSIVE SumThickness(_, _)
SumThickness(materials, i) ==
    IF i > Len(materials) THEN 0
    ELSE materials[i].thickness + SumThickness(materials, i + 1)

\* the stacks of at most MaxThickness, the empty list of layers included
RECURSIVE Extend(_)
Extend(S) ==
    LET longer == { Append(s, m) : s \in S, m \in Materials }
        fit == { s \in longer : SumThickness(s, 1) <= MaxThickness }
    IN IF fit = {} THEN S ELSE S \cup Extend(fit)

Stacks == Extend({ <<>> })

\* ----------------------------------------------------------- arithmetic
Abs(x) == IF x < 0 THEN -x ELSE x

RECURSIVE Gcd(_, _)
Gcd(a, b) == IF b = 0 THEN a ELSE Gcd(b, a % b)

Lcm(a, b) == (a \div Gcd(a, b)) * b

RECURSIVE LcmOfSet(_)
LcmOfSet(S) ==
    IF S = {} THEN 1
    ELSE LET x == CHOOSE y \in S : TRUE IN Lcm(x, LcmOfSet(S \ {x}))

\* common denominator of the material constants sigma / youngs of all the
\* materials that have them
Kall ==
    LcmOfSet({ m.youngs1 * m.youngs2 :
                 m \in { x \in Materials \cup DegenerateMaterials :
                            x.youngs1 * x.youngs2 # 0 } })

\* a/b < c/d for a, c >= 0 and b, d > 0, by continued fractions (the products
\* a*d and c*b would leave the integer range)
RECURSIVE FracLess(_, _, _, _)
FracLess(a, b, c, d) ==
    LET qa == a \div b
        qc == c \div d
        ra == a % b
        rc == c % d
    IN IF qa # qc THEN qa < qc
       ELSE IF rc = 0 THEN FALSE
       ELSE IF ra = 0 THEN TRUE
       ELSE FracLess(d, rc, b, ra)

FracEq(a, b, c, d) == ~FracLess(a, b, c, d) /\ ~FracLess(c, d, a, b)

\* ------------------------------------------------------------- _strain
\* (pos - na) * 1e-6 / (diameter / 2 * 1e-3 + na * 1e-6), both sides times 1e6
Strain(pos, neutral_axis, diameter) ==
    <<pos - neutral_axis, 500 * diameter + neutral_axis>>

\* a _stress whose test against max_strain1 is the wrong way round
StressInverted(strain, material) ==
    LET n  == strain[1]
        D  == strain[2]
        E1 == material.youngs1
        E2 == material.youngs2
        E3 == material.youngs3
        S1 == material.sigma1
        S2 == material.sigma2
        ms1n == S1
        ms1d == 1000 * E1
        ms2n == S1 * E2 + (S2 - S1) * E1
        ms2d == 1000 * E1 * E2
    IN IF n >= 0
       THEN IF n * ms2d > ms2n * D
            THEN S2 * D * Kall + 1000 * n * E3 * Kall
                   - ms2n * E3 * D * (Kall \div (E1 * E2))
            ELSE IF n * ms1d < ms1n * D
            THEN S1 * D * Kall + 1000 * n * E2 * Kall
                   - ms1n * E2 * D * (Kall \div E1)
            ELSE 1000 * n * E1 * Kall
       ELSE IF n * ms1d > -(ms1n * D)
            THEN 1000 * n * E1 * Kall
            ELSE -(S1 * D * Kall) + 1000 * n * E3 * Kall
                   + ms1n * E3 * D * (Kall \div E1)

\* ------------------------------------------------------------- _stress
\* strain = <<n, D>>.  The result is the stress in MPa times D * Kall, an
\* integer: every branch is sigma + (n/D - sigma'/(1000*youngs)) * youngs'' * 1000.
\* The comparisons are those of the source, cross-multiplied by the positive
\* denominators.
Stress(strain, material) ==
    LET n  == strain[1]
        D  == strain[2]
        E1 == material.youngs1
        E2 == material.youngs2
        E3 == material.youngs3
        S1 == material.sigma1
        S2 == material.sigma2
        \* max_strain1 = sigma1 / youngs1 = ms1n / ms1d
        ms1n == S1
        ms1d == 1000 * E1
        \* max_strain2 = max_strain1 + (sigma2 - sigma1) / youngs2 = ms2n / ms2d
        ms2n == S1 * E2 + (S2 - S1) * E1
        ms2d == 1000 * E1 * E2
    IN IF n >= 0
       THEN IF n * ms2d > ms2n * D
            THEN S2 * D * Kall + 1000 * n * E3 * Kall
                   - ms2n * E3 * D * (Kall \div (E1 * E2))
            ELSE IF n * ms1d > ms1n * D
            THEN S1 * D * Kall + 1000 * n * E2 * Kall
                   - ms1n * E2 * D * (Kall \div E1)
            ELSE 1000 * n * E1 * Kall
       ELSE IF n * ms1d > -(ms1n * D)
            THEN 1000 * n * E1 * Kall
            ELSE -(S1 * D * Kall) + 1000 * n * E3 * Kall
                   + ms1n * E3 * D * (Kall \div E1)

\* _stress as a call: max_strain1 = sigma1 / youngs1 and the division by
\* youngs2 in max_strain2 raise ZeroDivisionError before a branch is chosen
StressCall(strain, material) ==
    IF material.youngs1 = 0 \/ material.youngs2 = 0
    THEN Raise
    ELSE Return(Stress(strain, material))

\* ---------------------------------------------------- _total_thickness
\* self is the solver's _modell: None, or Some(stack).  int() of the sum is
\* the sum, the thicknesses being whole micrometres.
TotalThickness(self) == IF self = None THEN 0 ELSE SumThickness(self[1], 1)

\* -------------------------------------------------------------- _force
\* the inner loop of _force: the first layer whose cumulative thickness
\* exceeds pos
RECURSIVE LayerAt(_, _, _, _)
LayerAt(modell_, pos, i, max_pos) ==
    LET reach == max_pos + modell_[i].thickness
    IN IF pos < reach THEN modell_[i] ELSE LayerAt(modell_, pos, i + 1, reach)

\* the sum over pos in range(max_value), from pos on.  The source multiplies
\* every term by the positive constant 1e-6 * width; the model leaves it out
\* and scales by the strain denominator D and by Kall instead.
RECURSIVE ForceFrom(_, _, _, _, _)
ForceFrom(max_value, pos, diameter, neutral_axis, modell_) ==
    IF pos >= max_value THEN 0
    ELSE Stress(Strain(pos, neutral_axis, diameter), LayerAt(modell_, pos, 1, 0))
           + ForceFrom(max_value, pos + 1, diameter, neutral_axis, modell_)

Force(self, diameter, neutral_axis, modell_) ==
    ForceFrom(TotalThickness(self), 0, diameter, neutral_axis, modell_)

\* abs(force) as the fraction <<|Force|, D>> (the forces of different
\* neutral axes have different denominators D)
AbsForce(self, diameter, value, modell_) ==
    <<Abs(Force(self, diameter, value, modell_)), 500 * diameter + value>>

\* a max(forces) in the place of min(forces)
RECURSIVE MinFromLargest(_, _, _)
MinFromLargest(forces, i, best) ==
    IF i > Len(forces) THEN best
    ELSE LET f == forces[i]
         IN MinFromLargest(forces, i + 1,
                    IF FracLess(best[1], best[2], f[1], f[2]) THEN f ELSE best)

\* an index search that returns the last index of x, not the first
IndexFromLast(forces, x, i) ==
    LET found == { j \in i..Len(forces) :
                     FracEq(forces[j][1], forces[j][2], x[1], x[2]) }
    IN (CHOOSE j \in found : \A k \in found : k <= j) - 1

\* ------------------------------------------- _position_of_neutral_axis
\* min(forces): the first of the smallest elements
RECURSIVE MinFrom(_, _, _)
MinFrom(forces, i, best) ==
    IF i > Len(forces) THEN best
    ELSE LET f == forces[i]
         IN MinFrom(forces, i + 1,
                    IF FracLess(f[1], f[2], best[1], best[2]) THEN f ELSE best)

\* forces.index(x): the first index (from 0) whose element equals x
RECURSIVE IndexFrom(_, _, _)
IndexFrom(forces, x, i) ==
    IF FracEq(forces[i][1], forces[i][2], x[1], x[2]) THEN i - 1
    ELSE IndexFrom(forces, x, i + 1)

\* the list comprehension over range(max_value), from value on
RECURSIVE ForcesFrom(_, _, _, _, _)
ForcesFrom(self, max_value, diameter, value, modell_) ==
    IF value >= max_value THEN <<>>
    ELSE <<AbsForce(self, diameter, value, modell_)>>
           \o ForcesFrom(self, max_value, diameter, value + 1, modell_)

PositionOfNeutralAxis(self, diameter, modell_) ==
    LET forces == ForcesFrom(self, TotalThickness(self), diameter, 0, modell_)
    IN IF forces = <<>> THEN Raise    \* min([]) raises ValueError
       ELSE Return(IndexFrom(forces, MinFrom(forces, 2, forces[1]), 1))

\* ------------------------------------------------ _min_bending_diameter
\* the first loop: the CriticalConditions of the superconducting layers, from
\* layer i on with pos_value accumulated so far
RECURSIVE SuperconductorsFrom(_, _, _)
SuperconductorsFrom(modell_, i, pos_value) ==
    IF i > Len(modell_) THEN <<>>
    ELSE IF ~modell_[i].is_superconductor
    THEN SuperconductorsFrom(modell_, i + 1, pos_value + modell_[i].thickness)
    ELSE <<[pos |-> pos_value, material |-> modell_[i]]>>
           \o SuperconductorsFrom(modell_, i + 1, pos_value)

Superconductors(modell_) == SuperconductorsFrom(modell_, 1, 0)

\* epsilon > 0 and epsilon > critical_tensil_strain (microstrain), for the
\* strain of one CriticalConditions at a neutral axis
Exceeds(superconductor, neutral_axis, diameter) ==
    LET epsilon == Strain(superconductor.pos, neutral_axis, diameter)
    IN /\ epsilon[1] > 0
       /\ epsilon[1] * 1000000
            > superconductor.material.critical_tensil_strain * epsilon[2]

\* a loop body without the test "if bending_diameter is None": every
\* diameter is examined and a later hit overwrites an earlier one
ScanStepOverwrites(self, modell_, superconductors, diameter, state) ==
    IF state.raised THEN state
    ELSE LET neutral_axis == PositionOfNeutralAxis(self, diameter, modell_)
         IN IF neutral_axis.raised THEN Raise
            ELSE IF \E k \in 1..Len(superconductors) :
                      Exceeds(superconductors[k], Value(neutral_axis), diameter)
                 THEN Return(Some(diameter))
                 ELSE state

\* one pass of the loop body for one diameter; state is what the loop has
\* done so far: Return(bending_diameter), or Raise once a pass has raised
ScanStep(self, modell_, superconductors, diameter, state) ==
    IF state.raised THEN state
    ELSE IF Value(state) # None THEN state
    ELSE LET neutral_axis == PositionOfNeutralAxis(self, diameter, modell_)
         IN IF neutral_axis.raised THEN Raise
            ELSE IF \E k \in 1..Len(superconductors) :
                      Exceeds(superconductors[k], Value(neutral_axis), diameter)
                 THEN Return(Some(diameter))
                 ELSE Return(None)

\* the loop over the diameters hi, hi - 1, ..., lo in this order (the range
\* is halved to keep the evaluation shallow; the order of the passes is that
\* of range(300, 0, -1))
RECURSIVE ScanRange(_, _, _, _, _, _)
ScanRange(self, modell_, superconductors, hi, lo, state) ==
    IF hi = lo THEN ScanStep(self, modell_, superconductors, hi, state)
    ELSE LET mid == (hi + lo) \div 2
             upper == ScanRange(self, modell_, superconductors, hi, mid + 1, state)
         IN IF upper.raised THEN upper    \* the exception ends the loop
            ELSE ScanRange(self, modell_, superconductors, mid, lo, upper)

MinBendingDiameter(self, modell_) ==
    ScanRange(self, modell_, Superconductors(modell_), MaxDiameter, 1, Return(None))

\* ---------------------------------------------------------------- solve
\* self._modell[::-1]
RECURSIVE Reversed(_)
Reversed(s) == IF s = <<>> THEN <<>> ELSE Append(Reversed(Tail(s)), Head(s))

\* values = [self._modell, self._modell[::-1]]
Values(self) == <<self[1], Reversed(self[1])>>

\* what the worker given values[i] does, for every stack a solver may hold
\* (the scan is a function of the stack alone; it is evaluated once)
ScanTable ==
    [s \in Stacks |->
        [i \in 1..2 |-> MinBendingDiameter(Some(s), Values(Some(s))[i])]]

Task(arg) == [arg |-> arg, state |-> "pending", value |-> None]

\* call is the last call made on the solver that has ended, with how it
\* ended (for solve: and which workers' calls had raised)
NoCall == [fn |-> "none"]

\* The solver object after construction (the class attributes)
Init ==
    /\ modell = None
    /\ min_bending_diameter_d = None
    /\ min_bending_diameter_u = None
    /\ pc = "idle"
    /\ tasks = <<>>
    /\ stdout = ""
    /\ call = NoCall

\* parse_material_data(data): data["Layers"] = layers
ParseMaterialData(layers) ==
    /\ pc = "idle"
    /\ modell' = Some(layers)
    /\ call' = [fn |-> "parse_material_data", outcome |-> Return(None)]
    /\ UNCHANGED <<min_bending_diameter_d, min_bending_diameter_u, pc, tasks, stdout>>

\* a solve() that, with no stack, also stores 0.0 as both results
SolveNoModellZeroes ==
    /\ pc = "idle"
    /\ modell = None
    /\ stdout' = "No modell loaded"
    /\ call' = [fn |-> "solve", outcome |-> Return(None), failed |-> {}]
    /\ min_bending_diameter_d' = Some(0)
    /\ min_bending_diameter_u' = Some(0)
    /\ UNCHANGED <<modell, pc, tasks>>

\* solve() with no stack: prints and returns
SolveNoModell ==
    /\ pc = "idle"
    /\ modell = None
    /\ stdout' = "No modell loaded"
    /\ call' = [fn |-> "solve", outcome |-> Return(None), failed |-> {}]
    /\ UNCHANGED <<modell, min_bending_diameter_d, min_bending_diameter_u, pc, tasks>>

\* a solve() that reverses the stack in place (self._modell.reverse()) to
\* get the second value
SolveMapInPlace ==
    /\ pc = "idle"
    /\ modell # None
    /\ modell' = Some(Reversed(modell[1]))
    /\ tasks' = <<Task(modell[1]), Task(Reversed(modell[1]))>>
    /\ pc' = "map"
    /\ UNCHANGED <<min_bending_diameter_d, min_bending_diameter_u, stdout, call>>

\* solve() with a stack: pool.map hands values[0] and values[1] to the workers
SolveMap ==
    /\ pc = "idle"
    /\ modell # None
    /\ tasks' = <<Task(Values(modell)[1]), Task(Values(modell)[2])>>
    /\ pc' = "map"
    /\ UNCHANGED <<modell, min_bending_diameter_d, min_bending_diameter_u, stdout, call>>

\* a worker process runs self._min_bending_diameter(values[i])
Worker(i) ==
    /\ pc = "map"
    /\ tasks[i].state = "pending"
    /\ LET outcome == ScanTable[modell[1]][i]
       IN tasks' = [tasks EXCEPT ![i] =
                      IF outcome.raised
                      THEN [@ EXCEPT !.state = "raised"]
                      ELSE [@ EXCEPT !.state = "returned", !.value = Value(outcome)]]
    /\ UNCHANGED <<modell, min_bending_diameter_d, min_bending_diameter_u, pc, stdout, call>>

\* a worker's call raises for a cause outside the scan (MemoryError, a signal
\* handler, ...): the pool hands the exception to map like any other
WorkerRaises(i) ==
    /\ pc = "map"
    /\ tasks[i].state = "pending"
    /\ tasks' = [tasks EXCEPT ![i].state = "raised"]
    /\ UNCHANGED <<modell, min_bending_diameter_d, min_bending_diameter_u, pc, stdout, call>>

\* a solve() that stores result[1] as "up" and result[0] as "down"
SolveStoreSwapped ==
    /\ pc = "map"
    /\ \A i \in 1..2 : tasks[i].state = "returned"
    /\ min_bending_diameter_u' = tasks[2].value
    /\ min_bending_diameter_d' = tasks[1].value
    /\ pc' = "idle"
    /\ tasks' = <<>>
    /\ call' = [fn |-> "solve", outcome |-> Return(None), failed |-> {}]
    /\ UNCHANGED <<modell, stdout>>

\* pool.map returns result once both calls have returned; solve stores
\* result[0] and result[1] and returns
SolveStore ==
    /\ pc = "map"
    /\ \A i \in 1..2 : tasks[i].state = "returned"
    /\ min_bending_diameter_u' = tasks[1].value
    /\ min_bending_diameter_d' = tasks[2].value
    /\ pc' = "idle"
    /\ tasks' = <<>>
    /\ call' = [fn |-> "solve", outcome |-> Return(None), failed |-> {}]
    /\ UNCHANGED <<modell, stdout>>

\* a solve() that catches a worker's exception and stores what the other
\* worker returned, None standing for the missing result
SolveRaiseKeepsOne ==
    /\ pc = "map"
    /\ \A i \in 1..2 : tasks[i].state # "pending"
    /\ \E i \in 1..2 : tasks[i].state = "raised"
    /\ min_bending_diameter_u' = tasks[1].value
    /\ min_bending_diameter_d' = tasks[2].value
    /\ pc' = "idle"
    /\ tasks' = <<>>
    /\ call' = [fn |-> "solve", outcome |-> Return(None),
                failed |-> { i \in 1..2 : tasks[i].state = "raised" }]
    /\ UNCHANGED <<modell, stdout>>

\* pool.map re-raises a worker's exception once no call is left running:
\* the assignments after it are not reached
SolveRaise ==
    /\ pc = "map"
    /\ \A i \in 1..2 : tasks[i].state # "pending"
    /\ \E i \in 1..2 : tasks[i].state = "raised"
    /\ pc' = "idle"
    /\ tasks' = <<>>
    /\ call' = [fn |-> "solve", outcome |-> Raise,
                failed |-> { i \in 1..2 : tasks[i].state = "raised" }]
    /\ UNCHANGED <<modell, min_bending_diameter_d, min_bending_diameter_u, stdout>>

\* the property min_double_bending_diameter
Max(a, b) == IF b > a THEN b ELSE a

\* a property whose second test reads min_bending_diameter_d again
MinDoubleIgnoringUp ==
    LET bending_dia_down ==
            IF min_bending_diameter_d # None THEN min_bending_diameter_d[1] ELSE 0
        bending_dia_up ==
            IF min_bending_diameter_d # None THEN min_bending_diameter_d[1] ELSE 0
    IN Max(bending_dia_down, bending_dia_up)

min_double_bending_diameter ==
    LET bending_dia_down ==
            IF min_bending_diameter_d # None THEN min_bending_diameter_d[1] ELSE 0
        bending_dia_up ==
            IF min_bending_diameter_u # None THEN min_bending_diameter_u[1] ELSE 0
    IN Max(bending_dia_down, bending_dia_up)

Next ==
    \/ \E layers \in Stacks : ParseMaterialData(layers)
    \/ SolveNoModell
    \/ SolveMap
    \/ \E i \in 1..2 : Worker(i)
    \/ \E i \in 1..2 : WorkerRaises(i)
    \/ SolveStore
    \/ SolveRaise

Spec == Init /\ [][Next]_vars

\* ============================================== calls made on the solver
\* A solver with a stack loaded (the fixture of tests/test_bender.py)
InitLoaded ==
    /\ \E s \in Stacks : modell = Some(s)
    /\ min_bending_diameter_d = None
    /\ min_bending_diameter_u = None
    /\ pc = "idle"
    /\ tasks = <<>>
    /\ stdout = ""
    /\ call = NoCall

\* solver._position_of_neutral_axis(diameter, solver._modell)
CallPositionOfNeutralAxis(diameter) ==
    /\ call = NoCall
    /\ call' = [fn |-> "_position_of_neutral_axis",
                diameter |-> diameter,
                modell |-> modell[1],
                outcome |-> PositionOfNeutralAxis(modell, diameter, modell[1])]
    /\ UNCHANGED <<modell, min_bending_diameter_d, min_bending_diameter_u,
                   pc, tasks, stdout>>

NextAxis ==
    /\ call = NoCall
    /\ \E diameter \in 1..MaxDiameter : CallPositionOfNeutralAxis(diameter)

SpecAxis == InitLoaded /\ [][NextAxis]_vars

\* self._min_bending_diameter(arg), as a worker of solve() calls it, up to
\* the diameter loop: the superconductors are listed, bending_diameter is None
CallMinBendingDiameter(arg) ==
    /\ call = NoCall
    /\ call' = [fn |-> "_min_bending_diameter",
                modell |-> arg,
                superconductors |-> Superconductors(arg),
                diameter |-> MaxDiameter,
                state |-> Return(None)]
    /\ UNCHANGED <<modell, min_bending_diameter_d, min_bending_diameter_u,
                   pc, tasks, stdout>>

\* one pass of the loop over range(300, 0, -1); the call has ended when
\* call.diameter = 0 (it returns Value(call.state)) or call.state.raised
ScanPass ==
    /\ call.fn = "_min_bending_diameter"
    /\ call.diameter > 0
    /\ ~call.state.raised
    /\ call' = [call EXCEPT
                  !.state = ScanStep(modell, call.modell, call.superconductors,
                                     call.diameter, call.state),
                  !.diameter = @ - 1]
    /\ UNCHANGED <<modell, min_bending_diameter_d, min_bending_diameter_u,
                   pc, tasks, stdout>>

NextScan ==
    \/ \E i \in 1..2 : CallMinBendingDiameter(Values(modell)[i])
    \/ ScanPass

SpecScan == InitLoaded /\ [][NextScan]_vars

\* solver._stress(strain, material), the strain that of a fibre at pos for
\* a neutral axis and a diameter
CallStress(material, pos, neutral_axis, diameter) ==
    /\ call = NoCall
    /\ call' = [fn |-> "_stress",
                strain |-> Strain(pos, neutral_axis, diameter),
                material |-> material,
                outcome |-> StressCall(Strain(pos, neutral_axis, diameter),
                                       material)]
    /\ UNCHANGED <<modell, min_bending_diameter_d, min_bending_diameter_u,
                   pc, tasks, stdout>>

NextStress ==
    /\ call = NoCall
    /\ \E material \in Materials \cup DegenerateMaterials,
          pos \in 0..(MaxThickness - 1),
          neutral_axis \in 0..(MaxThickness - 1), diameter \in 1..MaxDiameter :
           CallStress(material, pos, neutral_axis, diameter)

SpecStress == Init /\ [][NextStress]_vars

\* ================================================== the solver's life cycle

\* the last call that ended was a solve() that ran both scans and returned
Completed ==
    /\ call.fn = "solve"
    /\ ~call.outcome.raised
    /\ modell # None

\* the scan of values[i] of the loaded stack: i = 1 the stack as loaded,
\* i = 2 its reversed copy
ScanOf(i) == Value(ScanTable[modell[1]][i])

Present(optional) == { optional[k] : k \in 1..Len(optional) }

\* C3: in every state min_double_bending_diameter is the largest of 0, the
\* "down" result if there is one and the "up" result if there is one; so it
\* is 0 when both are absent, and never negative.
C3_DoubleIsMax ==
    LET candidates == {0} \cup Present(min_bending_diameter_d)
                          \cup Present(min_bending_diameter_u)
    IN /\ min_double_bending_diameter \in candidates
       /\ \A v \in candidates : min_double_bending_diameter >= v
       /\ min_double_bending_diameter >= 0
       /\ (min_bending_diameter_d = None /\ min_bending_diameter_u = None)
            => min_double_bending_diameter = 0

\* a solve() has stored an "up" result and no "down" result
C3_Witness ==
    /\ Completed
    /\ min_bending_diameter_u # None
    /\ min_bending_diameter_d = None
    /\ min_double_bending_diameter = min_bending_diameter_u[1]

\* C4: with no stack loaded, however often solve() is called, no worker is
\* started and both results stay absent.
C4_NoStackNoScan ==
    modell = None => /\ pc = "idle"
                     /\ tasks = <<>>
                     /\ min_bending_diameter_d = None
                     /\ min_bending_diameter_u = None

\* solve() has been called with no stack loaded
C4_Witness ==
    /\ modell = None
    /\ call.fn = "solve"
    /\ stdout = "No modell loaded"

\* C6: a step changes a result only when both workers' calls have returned,
\* and stores both; a solve() one of whose workers raised ends by raising and
\* leaves both results as they were.
C6_BothOrNeither ==
    [][ /\ (\/ min_bending_diameter_u' # min_bending_diameter_u
            \/ min_bending_diameter_d' # min_bending_diameter_d)
           => /\ pc = "map"
              /\ \A i \in 1..2 : tasks[i].state = "returned"
              /\ min_bending_diameter_u' = tasks[1].value
              /\ min_bending_diameter_d' = tasks[2].value
        /\ (pc = "map" /\ pc' = "idle" /\ \E i \in 1..2 : tasks[i].state = "raised")
           => /\ call'.fn = "solve"
              /\ call'.outcome.raised
              /\ min_bending_diameter_u' = min_bending_diameter_u
              /\ min_bending_diameter_d' = min_bending_diameter_d ]_vars

\* a solve() in which exactly one worker raised has ended, and the result an
\* earlier solve() stored is still there
C6_Witness ==
    /\ pc = "idle"
    /\ call.fn = "solve"
    /\ call.outcome.raised
    /\ Cardinality(call.failed) = 1
    /\ min_bending_diameter_u # None

\* C9: only parse_material_data changes the stack: no step of solve() does,
\* and while the workers run the second one holds the reversed copy and the
\* solver the stack as loaded.
C9_StackUnchanged ==
    [][ /\ \/ modell' = modell
           \/ pc = "idle" /\ pc' = "idle" /\ call'.fn = "parse_material_data"
        /\ pc' = "map" => /\ tasks'[1].arg = modell'[1]
                          /\ tasks'[2].arg = Reversed(modell'[1]) ]_vars

\* the workers run on a stack that differs from its reversed copy
C9_Witness ==
    /\ pc = "map"
    /\ tasks[1].arg = modell[1]
    /\ tasks[2].arg # modell[1]
    /\ call.fn = "solve"

\* ================================================ the scan of one stack

\* the call of _min_bending_diameter has returned
ScanReturned ==
    /\ call.fn = "_min_bending_diameter"
    /\ call.diameter = 0
    /\ ~call.state.raised

\* at this diameter the strain of some superconducting layer, taken at the
\* diameter's neutral axis, is positive and exceeds the layer's critical strain
Violation(diameter) ==
    LET superconductors == Superconductors(call.modell)
        neutral_axis == PositionOfNeutralAxis(modell, diameter, call.modell)
    IN \E k \in 1..Len(superconductors) :
          Exceeds(superconductors[k], Value(neutral_axis), diameter)

RECURSIVE SuperconductingLayers(_, _)
SuperconductingLayers(stack, i) ==
    IF i > Len(stack) THEN <<>>
    ELSE (IF stack[i].is_superconductor THEN <<i>> ELSE <<>>)
           \o SuperconductingLayers(stack, i + 1)

\* the thicknesses of all the layers before layer i
Depth(stack, i) == SumThickness(SubSeq(stack, 1, i - 1), 1)

\* C10, as claimed: the position recorded for every superconducting layer is
\* the sum of the thicknesses of all the layers before it, superconducting
\* or not.
C10_PositionIsDepth ==
    call.fn = "_min_bending_diameter" =>
        LET layers == SuperconductingLayers(call.modell, 1)
        IN /\ Len(call.superconductors) = Len(layers)
           /\ \A k \in 1..Len(layers) :
                 /\ call.superconductors[k].material = call.modell[layers[k]]
                 /\ call.superconductors[k].pos = Depth(call.modell, layers[k])

\* ======================================================= the neutral axis

AxisReturned ==
    /\ call.fn = "_position_of_neutral_axis"
    /\ ~call.outcome.raised

\* abs(net_force) of the call's stack and diameter for the axis q, as the
\* fraction <<numerator, denominator>>
CallForce(q) == AbsForce(modell, call.diameter, q, call.modell)

Less(f, g) == FracLess(f[1], f[2], g[1], g[2])

Symmetric(stack) == stack = Reversed(stack)

\* at this diameter every fibre stays on the first elastic branch of its
\* layer, |strain| <= sigma1 / youngs1, whichever position the axis is tried at
Elastic(self, diameter, stack) ==
    \A pos \in 0..(TotalThickness(self) - 1),
       neutral_axis \in 0..(TotalThickness(self) - 1) :
        LET epsilon == Strain(pos, neutral_axis, diameter)
            material == LayerAt(stack, pos, 1, 0)
        IN Abs(epsilon[1]) * 1000 * material.youngs1 <= material.sigma1 * epsilon[2]

ZeroStrainCall ==
    /\ call.fn = "_stress"
    /\ call.strain[1] = 0

\* the numbers of a layer as the data model has them: positive youngs1 and
\* youngs2, sigma2 >= sigma1 >= 0
WellFormed(material) ==
    /\ material.youngs1 > 0
    /\ material.youngs2 > 0
    /\ 0 <= material.sigma1
    /\ material.sigma1 <= material.sigma2

\* C8, as claimed: at zero strain _stress returns 0, whatever the material's
\* moduli and yield breakpoints are.
C8_ZeroStrainZeroStress ==
    ZeroStrainCall => call.outcome = Return(0)

\* C8, amended: at zero strain _stress returns 0 for every material with
\* positive youngs1 and youngs2 and sigma2 >= sigma1 >= 0; with youngs1 = 0
\* or youngs2 = 0 it raises (ZeroDivisionError).
C8_ZeroStrainWellFormed ==
    ZeroStrainCall =>
        /\ WellFormed(call.material) => call.outcome = Return(0)
        /\ (call.material.youngs1 = 0 \/ call.material.youngs2 = 0)
              => call.outcome.raised

\* _stress has returned 0 at zero strain for a material that yields at once
\* (max_strain1 = 0: the strain is on the boundary of the elastic branch)
C8_Witness ==
    /\ ZeroStrainCall
    /\ WellFormed(call.material)
    /\ call.material.sigma1 = 0
    /\ call.outcome = Return(0)

=============================================================================
